---------------------------- MODULE Spec2Model ----------------------------
(***************************************************************************)
(* Model of calendar_push_sa_multi.py: a FastAPI service that keeps, per   *)
(* calendar, a state file {syncToken, events: id -> etag}, a registry file *)
(* channels.json (channel id -> calendar), and three routes: init_watch,   *)
(* calendar_push and stop_watch.                                           *)
(*                                                                         *)
(* Every route is an `async def` that never awaits, so the event loop runs *)
(* one handler from its first line to its response before it starts the    *)
(* next one (LoopFree).  Inside a handler every network call is one step   *)
(* of the model; the provider's answers (pages, tokens, errors) and the    *)
(* downstream POST's outcome are chosen nondeterministically, a page's     *)
(* items and its tokens at the moment the handler reads them.  Items of a  *)
(* page follow the provider's Events resource: each has id, status, etag,  *)
(* and (when not cancelled) start and end, so describe() is total on them. *)
(***************************************************************************)
EXTENDS Integers, Sequences, FiniteSets, TLC

\* ------------------------------------------------------------ bounds
MaxPages == 2        \* pages the provider returns for one listing
MaxPageLen == 2      \* items on one page

\* ------------------------------------------------------------ domains
None == "None"                      \* Python's None where the other values are strings
EvIds == {"a", "b"}                 \* event ids a provider calendar can hold
Etags == {"e1", "e2"}               \* revision markers
Tokens == {"t1", "t2"}              \* sync tokens the provider hands out
Reqs == {"r1", "r2"}                \* HTTP requests in flight at once
Uuids == {1, 2}                     \* the channel ids uuid4 yields, in this order
UnknownChannel == 0                 \* a channel id header that uuid4 never yielded

\* The items a listing page can carry (the fields the handlers read): an
\* active event has an etag; of a cancelled one only the id is populated.
EvShapes(ids) ==
    [id : ids, status : {"confirmed"}, etag : Etags]
    \cup [id : ids, status : {"cancelled"}, etag : {None}]
NoEv == [id |-> "", status |-> "", etag |-> ""]

\* Calendar ids are strings, modelled as sequences of characters.
CalA == <<"a", "@", "x">>
CalA2 == <<"a", "#", "x">>
CalB == <<"b", "@", "x">>
NoCal == <<>>
WebhookUrl == "https://h/calendar/push"

\* The environments the module-level configuration (lines 12-19) can hold:
\* one calendar, or a required setting missing; and two calendars.
Configs ==
    { [webhook |-> WebhookUrl, ids |-> <<CalA>>],
      [webhook |-> None, ids |-> <<CalA>>],
      [webhook |-> WebhookUrl, ids |-> <<>>] }
MultiConfigs ==
    { [webhook |-> WebhookUrl, ids |-> <<CalA, CalB>>],
      [webhook |-> WebhookUrl, ids |-> <<CalA, CalA2>>] }

\* ------------------------------------------------------------ helpers
\* The characters of the class [A-Za-z0-9._-] among those the model uses.
SafeChars == {"a", "b", "x", ".", "_", "-"}

RECURSIVE DropUnsafe(_)
DropUnsafe(s) ==
    IF s = <<>> \/ Head(s) \in SafeChars THEN s ELSE DropUnsafe(Tail(s))

\* re.sub(r"[^A-Za-z0-9._-]+", "_", s): every maximal run of characters
\* outside the class becomes one underscore.
RECURSIVE safe_name(_)
safe_name(s) ==
    IF s = <<>> THEN <<>>
    ELSE IF Head(s) \in SafeChars
         THEN <<Head(s)>> \o safe_name(Tail(s))
         ELSE <<"_">> \o safe_name(DropUnsafe(Tail(s)))

state_path(calendar_id) ==
    <<"calendar_states/state_">> \o safe_name(calendar_id) \o <<".json">>

EmptyMap == [x \in {} |-> ""]
DefaultState == [events |-> EmptyMap, syncToken |-> None]

\* dict operations on id -> etag maps
DictSet(m, k, v) == [x \in (DOMAIN m) \cup {k} |-> IF x = k THEN v ELSE m[x]]
DictPop(m, k) == [x \in (DOMAIN m) \ {k} |-> m[x]]

\* load_json(path, default) on the state files
load_json(files, path) == IF path \in DOMAIN files THEN files[path] ELSE DefaultState

\* save_json(path, obj) on the state files
save_json(files, path, obj) ==
    [p \in (DOMAIN files) \cup {path} |-> IF p = path THEN obj ELSE files[p]]

\* The resourceId the provider returns from watch() for a calendar.
ResourceOf(calendar_id) == <<"res:">> \o calendar_id

NoInfo == [calendar_id |-> NoCal, resource_id |-> NoCal]
NoChannels == [c \in {} |-> NoInfo]
NoLine == <<"", "">>
NoRes == [nextPageToken |-> FALSE, nextSyncToken |-> None]

VARIABLES
    WEBHOOK_ADDRESS,   \* the callback address, or None
    CALENDAR_IDS,      \* the configured calendars, a sequence
    channelsFile,      \* channels.json: channel id -> [calendar_id, resource_id]
    stateFiles,        \* the state files: path -> [events, syncToken]
    watches,           \* provider side: the channel ids with a live watch
    uuids,             \* how many uuid4 values have been drawn
    req,               \* the requests: position and locals of each handler
    clients,           \* environment: the request slots the outside world uses
    catalog            \* environment: the event ids the provider's calendars hold

vars == <<WEBHOOK_ADDRESS, CALENDAR_IDS, channelsFile, stateFiles, watches, uuids, req,
          clients, catalog>>

\* A request slot: pc is the handler's position, the other fields its locals.
\*   res      the tokens of the page last read to its end
\*   line     the CREATED/UPDATED/DELETED line written for the item `ev`, if any
\*   post     what the POST for the item `ev` did: "none", "sent" or "failed"
\*   emitted  whether this run has written a CREATED/UPDATED/DELETED line
\*   posted   whether this run has POSTed to the downstream endpoint
\*   pre      the state file's record when the incremental loop began
\*   saves    the save_json calls on the state file made by the incremental loop
\*   seen     the active items the baseline listing has returned, id -> last etag
IdleReq ==
    [pc |-> "idle", kind |-> "none", channel_id |-> UnknownChannel, calendar_id |-> NoCal,
     state |-> DefaultState, events_map |-> EmptyMap, npages |-> 0, left |-> 0,
     res |-> NoRes, ev |-> NoEv,
     line |-> NoLine, post |-> "none", emitted |-> FALSE, posted |-> FALSE,
     pre |-> DefaultState,
     saves |-> 0, seen |-> EmptyMap,
     channels |-> NoChannels, started |-> <<>>, stopped |-> <<>>, i |-> 0,
     status |-> 0, ok |-> FALSE, outcome |-> ""]

\* The state after import: nothing on disk, no watch, no request.
Fresh(cfgs, slots, ids) ==
    /\ \E cfg \in cfgs :
          /\ WEBHOOK_ADDRESS = cfg.webhook
          /\ CALENDAR_IDS = cfg.ids
    /\ channelsFile = NoChannels
    /\ stateFiles = [p \in {} |-> DefaultState]
    /\ watches = {}
    /\ uuids = 0
    /\ req = [t \in Reqs |-> IdleReq]
    /\ clients = slots
    /\ catalog = ids

\* One request at a time, against one calendar or a broken configuration.
Init == Fresh(Configs, {"r1"}, EvIds)

\* One request at a time, two calendars configured.
InitMulti == Fresh(MultiConfigs, {"r1"}, {"a"})

\* Two requests in flight, one calendar.
InitOverlap == Fresh({[webhook |-> WebhookUrl, ids |-> <<CalA>>]}, Reqs, {"a"})

Config == <<WEBHOOK_ADDRESS, CALENDAR_IDS, clients, catalog>>

\* Handlers that yield to each other at every network call.
LoopAlwaysFree(t) == TRUE

\* The event loop is free for t: every other request is waiting for it; none
\* is inside its handler or has its response still being written.
LoopFree(t) == \A u \in Reqs \ {t} : req[u].pc \in {"idle", "queued"}

\* A handler returns (or raises): the response is written, the locals the
\* response no longer needs are dropped.
Finish(r, status, ok, outcome) ==
    [r EXCEPT !.pc = "done", !.status = status, !.ok = ok, !.outcome = outcome,
              !.left = 0, !.ev = NoEv, !.line = NoLine, !.post = "none",
              !.events_map = EmptyMap, !.seen = EmptyMap]

\* ------------------------------------------------------------ requests
\* A request arrives and waits for the event loop.
Arrive(t) ==
    /\ t \in clients
    /\ req[t].pc = "idle"
    /\ \E kind \in {"init_watch", "calendar_push", "stop_watch"} :
       \E ch \in Uuids \cup {UnknownChannel} :
          /\ (kind # "calendar_push") => ch = UnknownChannel
          /\ req' = [req EXCEPT ![t] = [IdleReq EXCEPT !.pc = "queued", !.kind = kind,
                                                       !.channel_id = ch]]
    /\ UNCHANGED <<Config, channelsFile, stateFiles, watches, uuids>>

\* The response has been sent; the slot is free again.
Reset(t) ==
    /\ req[t].pc = "done"
    /\ req' = [req EXCEPT ![t] = IdleReq]
    /\ UNCHANGED <<Config, channelsFile, stateFiles, watches, uuids>>

\* ------------------------------------------------------------ the provider
\* What a listing page carries besides its items: a next page token, or (on
\* the last page) the next sync token, which the provider may omit.  npages
\* counts the pages of this listing already received.
ResShapes(npages) ==
    {[nextPageToken |-> FALSE, nextSyncToken |-> k] : k \in Tokens \cup {None}}
    \cup (IF npages < MaxPages
          THEN {[nextPageToken |-> TRUE, nextSyncToken |-> None]}
          ELSE {})

\* ------------------------------------------------------------ ensure_baseline
\* ensure_baseline enters its loop: a fresh events_map, no page token.
BeginBaseline(r) ==
    [r EXCEPT !.pc = "baseline_list", !.events_map = EmptyMap, !.seen = EmptyMap,
              !.npages = 0]

\* The incremental loop of calendar_push begins (line 163).
BeginIncremental(r, persisted) ==
    [r EXCEPT !.pc = "list", !.npages = 0, !.pre = persisted, !.line = NoLine,
              !.post = "none", !.emitted = FALSE, !.posted = FALSE, !.saves = 0]

\* A baseline that forgets to skip cancelled items.
BaselineFoldKeepsCancelled(events_map, ev) == DictSet(events_map, ev.id, ev.etag)

\* One item of a baseline page (lines 90-92).
BaselineFold(events_map, ev) ==
    IF ev.status # "cancelled" THEN DictSet(events_map, ev.id, ev.etag) ELSE events_map

\* events().list(timeMin=now, ...).execute() of ensure_baseline: a page, or an
\* exception, which neither caller catches.
BaselineList(t) ==
    /\ req[t].pc = "baseline_list"
    /\ \/ \E n \in 0..MaxPageLen :
             req' = [req EXCEPT ![t] = [@ EXCEPT !.pc = "baseline_items", !.left = n,
                                                 !.npages = @ + 1]]
       \/ req' = [req EXCEPT ![t] = Finish(@, 500, FALSE, "baseline_failed")]
    /\ UNCHANGED <<Config, channelsFile, stateFiles, watches, uuids>>

BaselineItem(t) ==
    /\ req[t].pc = "baseline_items"
    /\ req[t].left > 0
    /\ \E ev \in EvShapes(catalog) :
          req' = [req EXCEPT ![t] =
                    [@ EXCEPT !.ev = ev, !.left = @ - 1,
                              !.events_map = BaselineFold(@, ev),
                              !.seen = IF ev.status = "confirmed"
                                       THEN DictSet(@, ev.id, ev.etag) ELSE @]]
    /\ UNCHANGED <<Config, channelsFile, stateFiles, watches, uuids>>

\* The page is exhausted (lines 93-97): loop for the next page, or store the
\* map and the token in state and return; both callers then save the state.
BaselineEnd(t) ==
    /\ req[t].pc = "baseline_items"
    /\ req[t].left = 0
    /\ \E res \in ResShapes(req[t].npages) :
       IF res.nextPageToken
       THEN /\ req' = [req EXCEPT ![t] = [@ EXCEPT !.pc = "baseline_list", !.ev = NoEv]]
            /\ UNCHANGED stateFiles
       ELSE LET state == [events |-> req[t].events_map,
                          syncToken |-> res.nextSyncToken]
                r == [req[t] EXCEPT !.state = state, !.ev = NoEv, !.res = res]
            IN /\ stateFiles' = save_json(stateFiles, state_path(r.calendar_id), state)
               /\ req' = [req EXCEPT ![t] =
                             IF r.kind = "calendar_push"
                             THEN BeginIncremental(r, state)
                             ELSE [r EXCEPT !.pc = "watch"]]
    /\ UNCHANGED <<Config, channelsFile, watches, uuids>>

\* ------------------------------------------------------------ calendar_push
\* print(f"[{calendar_id}] ... DELETED/CREATED/UPDATED ...") (lines 181, 202, 204)
Emit(r, kind, id) == [r EXCEPT !.line = <<kind, id>>, !.emitted = TRUE]

\* A POST whose failure is not caught: it ends the handler.
PostFailureAborts(r, delivered) ==
    IF delivered
    THEN [r EXCEPT !.post = "sent", !.posted = TRUE]
    ELSE Finish(r, 500, FALSE, "exception")

\* requests.post(...) inside try/except Exception (lines 192-197, 216-221)
Post(r, delivered) ==
    [r EXCEPT !.post = IF delivered THEN "sent" ELSE "failed", !.posted = TRUE]

\* An item loop that reports a deletion but keeps tracking the item.
ProcessItemKeepsDeleted(r, ev, delivered) ==
    LET events == r.state.events
    IN IF ev.status = "cancelled"
       THEN IF ev.id \in DOMAIN events
            THEN Post(Emit(r, "DELETED", ev.id), delivered)
            ELSE [r EXCEPT !.line = NoLine, !.post = "none"]
       ELSE LET prev == IF ev.id \in DOMAIN events THEN events[ev.id] ELSE None
                r1 == IF prev = None THEN Emit(r, "CREATED", ev.id)
                      ELSE IF prev # ev.etag THEN Emit(r, "UPDATED", ev.id)
                      ELSE [r EXCEPT !.line = NoLine]
            IN Post([r1 EXCEPT !.state.events = DictSet(events, ev.id, ev.etag)],
                    delivered)

\* The body of `for ev in items` (lines 177-221); `delivered` is whether the
\* POST to the downstream endpoint went through.
ProcessItem(r, ev, delivered) ==
    LET events == r.state.events
    IN IF ev.status = "cancelled"
       THEN IF ev.id \in DOMAIN events
            THEN Post(Emit([r EXCEPT !.state.events = DictPop(events, ev.id)],
                           "DELETED", ev.id),
                      delivered)
            ELSE [r EXCEPT !.line = NoLine, !.post = "none"]
       ELSE LET prev == IF ev.id \in DOMAIN events THEN events[ev.id] ELSE None
                r1 == IF prev = None THEN Emit(r, "CREATED", ev.id)
                      ELSE IF prev # ev.etag THEN Emit(r, "UPDATED", ev.id)
                      ELSE [r EXCEPT !.line = NoLine]
            IN Post([r1 EXCEPT !.state.events = DictSet(events, ev.id, ev.etag)],
                    delivered)

\* A push handler that takes the first configured calendar for a channel it
\* does not know.
PushStartDefaultsCalendar(t) ==
    /\ req[t].pc = "queued"
    /\ req[t].kind = "calendar_push"
    /\ LoopFree(t)
    /\ IF req[t].channel_id \notin DOMAIN channelsFile /\ CALENDAR_IDS = <<>>
       THEN req' = [req EXCEPT ![t] = Finish(@, 200, TRUE, "unknown_channel")]
       ELSE LET calendar_id == IF req[t].channel_id \in DOMAIN channelsFile
                               THEN channelsFile[req[t].channel_id].calendar_id
                               ELSE CALENDAR_IDS[1]
                state == load_json(stateFiles, state_path(calendar_id))
                r == [req[t] EXCEPT !.calendar_id = calendar_id, !.state = state]
            IN req' = [req EXCEPT ![t] =
                         IF state.syncToken = None
                         THEN BeginBaseline(r)
                         ELSE BeginIncremental(r, state)]
    /\ UNCHANGED <<Config, channelsFile, stateFiles, watches, uuids>>

\* Lines 144-161: resolve the channel, load the calendar's state, and enter
\* ensure_baseline when it has no sync token.
PushStart(t) ==
    /\ req[t].pc = "queued"
    /\ req[t].kind = "calendar_push"
    /\ LoopFree(t)
    /\ IF req[t].channel_id \notin DOMAIN channelsFile
       THEN req' = [req EXCEPT ![t] = Finish(@, 200, TRUE, "unknown_channel")]
       ELSE LET calendar_id == channelsFile[req[t].channel_id].calendar_id
                state == load_json(stateFiles, state_path(calendar_id))
                r == [req[t] EXCEPT !.calendar_id = calendar_id, !.state = state]
            IN req' = [req EXCEPT ![t] =
                         IF state.syncToken = None
                         THEN BeginBaseline(r)
                         ELSE BeginIncremental(r, state)]
    /\ UNCHANGED <<Config, channelsFile, stateFiles, watches, uuids>>

\* events().list(syncToken=..., pageToken=page).execute() (lines 167-173) and
\* the except clause (lines 233-239): a page; HttpError 410, which clears the
\* token and saves; another HttpError, which is logged; or an exception that
\* is no HttpError, which leaves the handler.
IncrList(t) ==
    /\ req[t].pc = "list"
    /\ \/ /\ \E n \in 0..MaxPageLen :
                req' = [req EXCEPT ![t] = [@ EXCEPT !.pc = "items", !.left = n,
                                                    !.npages = @ + 1]]
          /\ UNCHANGED stateFiles
       \/ LET state == [req[t].state EXCEPT !.syncToken = None]
          IN /\ stateFiles' = save_json(stateFiles, state_path(req[t].calendar_id), state)
             /\ req' = [req EXCEPT ![t] = Finish([@ EXCEPT !.state = state, !.saves = @ + 1],
                                                 200, TRUE, "gone")]
       \/ /\ req' = [req EXCEPT ![t] = Finish(@, 200, TRUE, "http_error")]
          /\ UNCHANGED stateFiles
       \/ /\ req' = [req EXCEPT ![t] = Finish(@, 500, FALSE, "exception")]
          /\ UNCHANGED stateFiles
    /\ UNCHANGED <<Config, channelsFile, watches, uuids>>

IncrItem(t) ==
    /\ req[t].pc = "items"
    /\ req[t].left > 0
    /\ \E ev \in EvShapes(catalog) : \E delivered \in BOOLEAN :
          req' = [req EXCEPT ![t] =
                    ProcessItem([@ EXCEPT !.ev = ev, !.left = @ - 1], ev, delivered)]
    /\ UNCHANGED <<Config, channelsFile, stateFiles, watches, uuids>>

\* Line 226: the state with the token of the last page, or the old token
\* when the page carries none.
WithNextToken(state, res) ==
    [state EXCEPT !.syncToken = IF res.nextSyncToken # None
                                THEN res.nextSyncToken ELSE @]

\* A loop that saves the state after every page.
FilesAfterPageEachPage(files, r, res) ==
    save_json(files, state_path(r.calendar_id), WithNextToken(r.state, res))

\* The state files after a page has been consumed (lines 223-228): written
\* only when there is no further page.
FilesAfterPage(files, r, res) ==
    IF res.nextPageToken
    THEN files
    ELSE save_json(files, state_path(r.calendar_id), WithNextToken(r.state, res))

\* Lines 223-228: the next page, or the new token and the one save.
IncrEnd(t) ==
    /\ req[t].pc = "items"
    /\ req[t].left = 0
    /\ \E res \in ResShapes(req[t].npages) :
       /\ stateFiles' = FilesAfterPage(stateFiles, req[t], res)
       /\ IF res.nextPageToken
          THEN req' = [req EXCEPT ![t] = [@ EXCEPT !.pc = "list", !.ev = NoEv,
                                                  !.line = NoLine, !.post = "none"]]
          ELSE req' = [req EXCEPT ![t] =
                         Finish([@ EXCEPT !.state = WithNextToken(@, res), !.res = res,
                                          !.saves = @ + 1],
                                200, TRUE, "ok")]
    /\ UNCHANGED <<Config, channelsFile, watches, uuids>>

\* ------------------------------------------------------------ init_watch
\* An init_watch that checks only for configured calendars before it starts.
InitStartSkipsWebhookCheck(t) ==
    /\ req[t].pc = "queued"
    /\ req[t].kind = "init_watch"
    /\ LoopFree(t)
    /\ IF CALENDAR_IDS = <<>>
       THEN req' = [req EXCEPT ![t] = Finish(@, 400, FALSE, "no_calendars")]
       ELSE /\ uuids + Len(CALENDAR_IDS) <= Cardinality(Uuids)
            /\ req' = [req EXCEPT ![t] = [@ EXCEPT !.pc = "init_loop", !.i = 1,
                                                   !.channels = channelsFile,
                                                   !.started = <<>>]]
    /\ UNCHANGED <<Config, channelsFile, stateFiles, watches, uuids>>

\* Lines 102-111: the two configuration checks, then load_channels().
InitStart(t) ==
    /\ req[t].pc = "queued"
    /\ req[t].kind = "init_watch"
    /\ LoopFree(t)
    /\ IF WEBHOOK_ADDRESS = None
       THEN req' = [req EXCEPT ![t] = Finish(@, 400, FALSE, "no_webhook")]
       ELSE IF CALENDAR_IDS = <<>>
       THEN req' = [req EXCEPT ![t] = Finish(@, 400, FALSE, "no_calendars")]
       ELSE /\ uuids + Len(CALENDAR_IDS) <= Cardinality(Uuids)
            /\ req' = [req EXCEPT ![t] = [@ EXCEPT !.pc = "init_loop", !.i = 1,
                                                   !.channels = channelsFile,
                                                   !.started = <<>>]]
    /\ UNCHANGED <<Config, channelsFile, stateFiles, watches, uuids>>

\* An init_watch that takes a new baseline for every calendar, cursor or not.
InitLoadAlwaysBootstraps(t) ==
    /\ req[t].pc = "init_loop"
    /\ LET cal_id == CALENDAR_IDS[req[t].i]
           state == load_json(stateFiles, state_path(cal_id))
           r == [req[t] EXCEPT !.calendar_id = cal_id, !.state = state]
       IN /\ req' = [req EXCEPT ![t] = BeginBaseline(r)]
          /\ UNCHANGED stateFiles
    /\ UNCHANGED <<Config, channelsFile, watches, uuids>>

\* Lines 114-117 for CALENDAR_IDS[i]: load the state; ensure_baseline returns
\* at once when it has a sync token, and the state is saved back.
InitLoad(t) ==
    /\ req[t].pc = "init_loop"
    /\ LET cal_id == CALENDAR_IDS[req[t].i]
           state == load_json(stateFiles, state_path(cal_id))
           r == [req[t] EXCEPT !.calendar_id = cal_id, !.state = state]
       IN IF state.syncToken # None
          THEN /\ stateFiles' = save_json(stateFiles, state_path(cal_id), state)
               /\ req' = [req EXCEPT ![t] = [r EXCEPT !.pc = "watch"]]
          ELSE /\ req' = [req EXCEPT ![t] = BeginBaseline(r)]
               /\ UNCHANGED stateFiles
    /\ UNCHANGED <<Config, channelsFile, watches, uuids>>

\* Lines 120-137: a fresh channel id, the watch() call, the registry entry;
\* after the last calendar the registry is saved.  An exception from watch()
\* leaves the handler.
InitWatch(t) ==
    /\ req[t].pc = "watch"
    /\ uuids' = uuids + 1
    /\ LET channel_id == uuids + 1
           cal_id == req[t].calendar_id
           info == [calendar_id |-> cal_id, resource_id |-> ResourceOf(cal_id)]
           channels == [c \in (DOMAIN req[t].channels) \cup {channel_id} |->
                           IF c = channel_id THEN info ELSE req[t].channels[c]]
           r == [req[t] EXCEPT !.channels = channels,
                               !.started = Append(@, channel_id),
                               !.i = @ + 1]
       IN \/ /\ watches' = watches \cup {channel_id}
             /\ IF r.i > Len(CALENDAR_IDS)
                THEN /\ channelsFile' = channels
                     /\ req' = [req EXCEPT ![t] = Finish(r, 200, TRUE, "started")]
                ELSE /\ req' = [req EXCEPT ![t] = [r EXCEPT !.pc = "init_loop"]]
                     /\ UNCHANGED channelsFile
          \/ /\ req' = [req EXCEPT ![t] = Finish(@, 500, FALSE, "watch_failed")]
             /\ UNCHANGED <<channelsFile, watches>>
    /\ UNCHANGED <<Config, stateFiles>>

\* ------------------------------------------------------------ stop_watch
\* The first key of a dict: channels are inserted in the order of their ids.
FirstKey(channels) == CHOOSE c \in DOMAIN channels : \A d \in DOMAIN channels : c <= d

\* Lines 247-252.
StopStart(t) ==
    /\ req[t].pc = "queued"
    /\ req[t].kind = "stop_watch"
    /\ LoopFree(t)
    /\ IF DOMAIN channelsFile = {}
       THEN req' = [req EXCEPT ![t] = Finish(@, 200, FALSE, "no_channels")]
       ELSE req' = [req EXCEPT ![t] = [@ EXCEPT !.pc = "stop_loop",
                                               !.channels = channelsFile,
                                               !.stopped = <<>>]]
    /\ UNCHANGED <<Config, channelsFile, stateFiles, watches, uuids>>

\* A stop loop without the try/except: a failing channels().stop() ends the
\* handler, the registry as it was.
StopOneAbortsOnFailure(t) ==
    /\ req[t].pc = "stop_loop"
    /\ LET ch_id == FirstKey(req[t].channels)
           channels == [c \in (DOMAIN req[t].channels) \ {ch_id} |-> req[t].channels[c]]
           r == [req[t] EXCEPT !.channels = channels, !.stopped = Append(@, ch_id)]
       IN \/ /\ watches' = watches \ {ch_id}
             /\ IF DOMAIN channels = {}
                THEN /\ channelsFile' = channels
                     /\ req' = [req EXCEPT ![t] = Finish(r, 200, TRUE, "stopped")]
                ELSE /\ req' = [req EXCEPT ![t] = r]
                     /\ UNCHANGED channelsFile
          \/ /\ req' = [req EXCEPT ![t] = Finish(@, 500, FALSE, "stop_failed")]
             /\ UNCHANGED <<channelsFile, watches>>
    /\ UNCHANGED <<Config, stateFiles, uuids>>

\* Lines 253-265 for one channel: channels().stop() may raise, which is caught;
\* the channel leaves the registry either way; after the last one the registry
\* is saved.
StopOne(t) ==
    /\ req[t].pc = "stop_loop"
    /\ LET ch_id == FirstKey(req[t].channels)
           channels == [c \in (DOMAIN req[t].channels) \ {ch_id} |-> req[t].channels[c]]
           r == [req[t] EXCEPT !.channels = channels, !.stopped = Append(@, ch_id)]
       IN /\ \/ watches' = watches \ {ch_id}
             \/ UNCHANGED watches
          /\ IF DOMAIN channels = {}
             THEN /\ channelsFile' = channels
                  /\ req' = [req EXCEPT ![t] = Finish(r, 200, TRUE, "stopped")]
             ELSE /\ req' = [req EXCEPT ![t] = r]
                  /\ UNCHANGED channelsFile
    /\ UNCHANGED <<Config, stateFiles, uuids>>

\* ------------------------------------------------------------ the system
Next ==
    \E t \in Reqs :
       \/ Arrive(t)
       \/ Reset(t)
       \/ PushStart(t)
       \/ BaselineList(t)
       \/ BaselineItem(t)
       \/ BaselineEnd(t)
       \/ IncrList(t)
       \/ IncrItem(t)
       \/ IncrEnd(t)
       \/ InitStart(t)
       \/ InitLoad(t)
       \/ InitWatch(t)
       \/ StopStart(t)
       \/ StopOne(t)

Spec == Init /\ [][Next]_vars
SpecMulti == InitMulti /\ [][Next]_vars
SpecOverlap == InitOverlap /\ [][Next]_vars

\* ------------------------------------------------------------ properties
\* The record the state store holds for a calendar.
Persisted(calendar_id) == load_json(stateFiles, state_path(calendar_id))

\* t takes one item off the current page of the incremental listing.
ItemStep(t) ==
    /\ req[t].pc = "items"
    /\ req'[t].pc = "items"
    /\ req'[t].left = req[t].left - 1

\* C1: every item of the incremental feed is classified against the tracked
\* items: cancelled and tracked -> DELETED is emitted and the id is dropped;
\* cancelled and untracked -> nothing is emitted, nothing changes; active and
\* untracked -> CREATED; active with a different stored marker -> UPDATED; and
\* every active item leaves items[id] = its marker, the other ids untouched.
C1_Classification ==
    [][\A t \in Reqs : ItemStep(t) =>
          LET ev == req'[t].ev
              old == req[t].state.events
              new == req'[t].state.events
              line == req'[t].line
          IN /\ ev \in EvShapes(catalog)
             /\ (ev.status = "cancelled" /\ ev.id \in DOMAIN old) =>
                   /\ line = <<"DELETED", ev.id>>
                   /\ DOMAIN new = (DOMAIN old) \ {ev.id}
                   /\ \A k \in DOMAIN new : new[k] = old[k]
             /\ (ev.status = "cancelled" /\ ev.id \notin DOMAIN old) =>
                   /\ line = NoLine
                   /\ new = old
             /\ (ev.status # "cancelled" /\ ev.id \notin DOMAIN old) =>
                   line = <<"CREATED", ev.id>>
             /\ (ev.status # "cancelled" /\ ev.id \in DOMAIN old /\ old[ev.id] # ev.etag) =>
                   line = <<"UPDATED", ev.id>>
             /\ (line # NoLine) => req'[t].emitted
             /\ (ev.status # "cancelled") =>
                   /\ DOMAIN new = (DOMAIN old) \cup {ev.id}
                   /\ new[ev.id] = ev.etag
                   /\ \A k \in (DOMAIN old) \ {ev.id} : new[k] = old[k]
      ]_vars

\* C1 witness: prior {a: e1}, feed a:e2 then b:e1 (new): CREATED(b) has just
\* been emitted after UPDATED(a), and items = {a: e2, b: e1}.
C1_Witness ==
    \E t \in Reqs :
       /\ req[t].pc = "items"
       /\ req[t].pre.events = [x \in {"a"} |-> "e1"]
       /\ req[t].state.events = [x \in {"a", "b"} |-> IF x = "a" THEN "e2" ELSE "e1"]
       /\ req[t].ev = [id |-> "b", status |-> "confirmed", etag |-> "e1"]
       /\ req[t].line = <<"CREATED", "b">>
       /\ req[t].npages = 1
       /\ req[t].left = 0

\* C2: an active item whose marker equals the stored one is a no-op: nothing is
\* emitted, nothing is delivered downstream, items stay as they are (so a
\* replayed feed emits and delivers nothing).
C2_NoOpEcho ==
    [][\A t \in Reqs :
          (/\ ItemStep(t)
           /\ req'[t].ev.status # "cancelled"
           /\ req'[t].ev.id \in DOMAIN req[t].state.events
           /\ req[t].state.events[req'[t].ev.id] = req'[t].ev.etag)
          => /\ req'[t].line = NoLine
             /\ req'[t].state = req[t].state
             /\ req'[t].post = "none"
      ]_vars

\* C3: a bootstrap that runs to its last page leaves, in the handler's state
\* and in the store, exactly the active items the pages carried (each with its
\* marker) and the cursor of the final page; no step of a bootstrap emits or
\* delivers a diff event.
C3_BootstrapComplete ==
    [][\A t \in Reqs :
          (req[t].pc \in {"baseline_list", "baseline_items"}) =>
             /\ ~req[t].emitted /\ ~req'[t].emitted
             /\ ~req[t].posted /\ ~req'[t].posted
             /\ (req'[t].pc \in {"list", "watch"}) =>
                   LET st == load_json(stateFiles', state_path(req[t].calendar_id))
                   IN /\ st.events = req[t].seen
                      /\ st.syncToken = req'[t].res.nextSyncToken
                      /\ req'[t].state = st
      ]_vars

\* C3 witness: a two-page bootstrap has ended with two active items tracked
\* and the final page's cursor stored.
C3_Witness ==
    \E t \in Reqs :
       /\ req[t].pc = "watch"
       /\ req[t].npages = 2
       /\ req[t].state = [events |-> [x \in {"a", "b"} |-> IF x = "a" THEN "e1" ELSE "e2"],
                          syncToken |-> "t1"]
       /\ Persisted(req[t].calendar_id) = req[t].state

\* t is inside the incremental loop of calendar_push; t has left it.
InRun(t) == req[t].kind = "calendar_push" /\ req[t].pc \in {"list", "items"}
AfterRun(t) ==
    /\ req[t].kind = "calendar_push"
    /\ req[t].pc = "done"
    /\ req[t].outcome \in {"ok", "gone", "http_error", "exception"}

\* C4: after a run the provider answered with 410 (on whichever page), the
\* store holds cursor = None and the items it held before the run, and the run
\* has emitted no diff event.
C4_ExpiredCursor ==
    \A t \in Reqs :
       (AfterRun(t) /\ req[t].outcome = "gone") =>
          /\ Persisted(req[t].calendar_id).syncToken = None
          /\ Persisted(req[t].calendar_id).events = req[t].pre.events
          /\ ~req[t].emitted

\* C5: after a run that hit a provider or transport error other than 410 (on
\* whichever page), the store holds what it held before the run and the run has
\* emitted and delivered no diff event.
C5_ErrorLeavesNoTrace ==
    \A t \in Reqs :
       (AfterRun(t) /\ req[t].outcome \in {"http_error", "exception"}) =>
          /\ Persisted(req[t].calendar_id) = req[t].pre
          /\ ~req[t].emitted
          /\ ~req[t].posted

\* C6: every push callback is answered with status 200.
C6_AlwaysAcknowledged ==
    \A t \in Reqs :
       (req[t].kind = "calendar_push" /\ req[t].pc = "done") => req[t].status = 200

\* C7 as stated: the only save of a run is the one after its last page; at
\* every point before it, and after a run that ended in any other way, the
\* store holds the pre-run cursor and items.
C7_OnlySaveAfterLastPage ==
    \A t \in Reqs :
       /\ InRun(t) => (req[t].saves = 0 /\ Persisted(req[t].calendar_id) = req[t].pre)
       /\ (AfterRun(t) /\ req[t].outcome = "ok") => req[t].saves = 1
       /\ (AfterRun(t) /\ req[t].outcome # "ok") =>
             (req[t].saves = 0 /\ Persisted(req[t].calendar_id) = req[t].pre)

\* C7 amended: a run saves at most once: after its last page has been
\* consumed, or on 410, and then with cursor = None.  Until that save,
\* and after an error mid-pagination, the store holds the pre-run cursor and
\* items; the stored cursor moves to a new token only together with the items
\* that reflect every page of the run.
C7_PersistOnce ==
    /\ [](\A t \in Reqs :
            LET st == Persisted(req[t].calendar_id)
            IN /\ InRun(t) => (req[t].saves = 0 /\ st = req[t].pre)
               /\ AfterRun(t) =>
                     /\ (req[t].outcome = "ok") => (req[t].saves = 1 /\ st = req[t].state)
                     /\ (req[t].outcome = "gone") =>
                           (req[t].saves = 1 /\ st.syncToken = None)
                     /\ (req[t].outcome \in {"http_error", "exception"}) =>
                           (req[t].saves = 0 /\ st = req[t].pre)
                     /\ (st.syncToken \notin {req[t].pre.syncToken, None}) =>
                           (req[t].outcome = "ok" /\ st.events = req[t].state.events))
    /\ [][\A t \in Reqs : InRun(t) =>
            IF req'[t].saves = req[t].saves
            THEN stateFiles' = stateFiles
            ELSE /\ req'[t].pc = "done"
                 /\ \/ req'[t].outcome = "gone"
                    \/ /\ req'[t].outcome = "ok"
                       /\ req[t].pc = "items"
                       /\ req[t].left = 0
                       /\ ~req'[t].res.nextPageToken
                       /\ req'[t].state.events = req[t].state.events
         ]_vars

\* C7 witness: a two-page run has ended with its one save, which moved the
\* stored cursor and items.
C7_Witness ==
    \E t \in Reqs :
       /\ AfterRun(t)
       /\ req[t].outcome = "ok"
       /\ req[t].npages = 2
       /\ req[t].saves = 1
       /\ Persisted(req[t].calendar_id).syncToken \notin {req[t].pre.syncToken, None}
       /\ Persisted(req[t].calendar_id).events # req[t].pre.events

\* t holds the event loop: it is inside its handler or writing its response.
Busy(t) == req[t].pc \notin {"idle", "queued"}

\* C8: callbacks that overlap are handled one after the other: no two requests
\* are ever inside their handlers together, and all through a callback's
\* load-mutate-save cycle the store holds what that callback loaded or last
\* saved, so each cycle starts from the complete result of the previous one.
C8_Serialized ==
    \A t \in Reqs :
       LET st == Persisted(req[t].calendar_id)
       IN /\ \A u \in Reqs \ {t} : ~(Busy(t) /\ Busy(u))
          /\ (req[t].kind = "calendar_push"
                /\ req[t].pc \in {"baseline_list", "baseline_items"}) => st = req[t].state
          /\ InRun(t) => st = req[t].pre
          /\ (AfterRun(t) /\ req[t].outcome \in {"ok", "gone"}) => st = req[t].state
          /\ (AfterRun(t) /\ req[t].outcome \in {"http_error", "exception"}) =>
                st = req[t].pre

\* C8 witness: a callback is in its incremental loop, with a diff emitted,
\* while a second callback for the same calendar has arrived and waits.
C8_Witness ==
    \E t \in Reqs : \E u \in Reqs \ {t} :
       /\ InRun(t)
       /\ req[t].emitted
       /\ req[u].pc = "queued"
       /\ req[u].kind = "calendar_push"
       /\ req[u].channel_id \in DOMAIN channelsFile
       /\ channelsFile[req[u].channel_id].calendar_id = req[t].calendar_id

\* C9: a handler working on one calendar leaves the stored record of every
\* other configured calendar as it is.
C9_Isolation ==
    [][\A t \in Reqs : (req'[t] # req[t]) =>
          \A k \in 1..Len(CALENDAR_IDS) :
             (CALENDAR_IDS[k] # req'[t].calendar_id) =>
                load_json(stateFiles', state_path(CALENDAR_IDS[k]))
                   = Persisted(CALENDAR_IDS[k])
      ]_vars

\* C10: an init_watch that passed the configuration checks has gone through
\* every configured calendar when it answers, whatever failed on the way.
C10_BatchNotAborted ==
    \A t \in Reqs :
       (req[t].kind = "init_watch" /\ req[t].pc = "done" /\ req[t].status # 400) =>
          req[t].i > Len(CALENDAR_IDS)

\* t is about to take an item off the current page of the incremental listing.
AtItem(t) == req[t].pc = "items" /\ req[t].left > 0 /\ req'[t] # req[t]

\* C11: the delivery to the downstream endpoint has no part in the sync: the
\* step that handles an item leaves the same items, cursor and classification
\* whether the POST went through or failed, makes at most the one POST, and
\* goes on with the page; a failed POST never ends the run.
C11_DeliveryDecoupled ==
    [][\A t \in Reqs : AtItem(t) =>
          LET r == [req[t] EXCEPT !.ev = req'[t].ev, !.left = @ - 1]
              sent == ProcessItem(r, req'[t].ev, TRUE)
              failed == ProcessItem(r, req'[t].ev, FALSE)
          IN /\ ItemStep(t)
             /\ req'[t].post \in {"none", "sent", "failed"}
             /\ \A o \in {sent, failed} :
                   /\ o.pc = "items"
                   /\ o.state = req'[t].state
                   /\ o.line = req'[t].line
                   /\ o.emitted = req'[t].emitted
                   /\ o.left = req'[t].left
                   /\ o.saves = req'[t].saves
             /\ stateFiles' = stateFiles
      ]_vars

\* C11 witness: the POST for an item has failed; the item is classified and
\* tracked, and the run is still on its page.
C11_Witness ==
    \E t \in Reqs :
       /\ InRun(t)
       /\ req[t].pc = "items"
       /\ req[t].post = "failed"
       /\ req[t].line = <<"CREATED", req[t].ev.id>>
       /\ req[t].ev.id \in DOMAIN req[t].state.events
       /\ req[t].ev.id \notin DOMAIN req[t].pre.events

\* The record the store holds for a calendar after the step.
PersistedNext(calendar_id) == load_json(stateFiles', state_path(calendar_id))

\* t is inside ensure_baseline or the incremental loop, working on the items
\* map of one calendar: the map it loaded from the store and saves back to it.
Working(t) == req[t].pc \in {"baseline_list", "baseline_items", "list", "items"}

\* The step is the handling of a feed item by t, and it has written the line
\* <<kind, id>>.
EmitStep(t, kind, id) == ItemStep(t) /\ req'[t].line = <<kind, id>>

\* C12 (invariant I2): through bootstrap, incremental run and re-bootstrap, an
\* id leaves the items map a handler works on in exactly the steps that emit
\* DELETED for it.
C12_RemovedIffDeleted ==
    [][\A t \in Reqs : \A id \in EvIds :
          LET old == req[t].state.events
              new == req'[t].state.events
          IN Working(t) =>
                ((id \in DOMAIN old /\ id \notin DOMAIN new) <=> EmitStep(t, "DELETED", id))
      ]_vars

\* C13 (invariant I3): through bootstrap, incremental run and re-bootstrap, the
\* marker of an id that stays in the items map a handler works on changes in
\* exactly the steps that emit UPDATED for it.
C13_ChangedIffUpdated ==
    [][\A t \in Reqs : \A id \in EvIds :
          LET old == req[t].state.events
              new == req'[t].state.events
          IN Working(t) =>
                ((id \in DOMAIN old /\ id \in DOMAIN new /\ old[id] # new[id])
                    <=> EmitStep(t, "UPDATED", id))
      ]_vars

\* C14 (invariant I1): a stored cursor denotes the position of the listing that
\* handed it out, so after a completed incremental run that changed the items,
\* the stored items are the run's items and the stored cursor, when not None,
\* is the one the provider handed out at the end of that run's listing.
C14_ItemsAsOfCursor ==
    \A t \in Reqs :
       LET st == Persisted(req[t].calendar_id)
       IN (/\ AfterRun(t)
           /\ req[t].outcome = "ok"
           /\ req[t].state.events # req[t].pre.events
           /\ st.syncToken # None)
          => /\ st.events = req[t].state.events
             /\ st.syncToken = req[t].res.nextSyncToken

\* The elements of a sequence.
Range(s) == {s[k] : k \in 1..Len(s)}

\* C15: stop_watch on an empty registry answers with an error and changes
\* nothing; otherwise it goes through every registered channel, drops each from
\* its registry whether or not the provider accepted the stop, and ends with
\* the stored registry empty and a response that lists every channel the
\* registry held.
C15_StopAll ==
    [][\A t \in Reqs : (req[t].kind = "stop_watch" /\ req'[t] # req[t]) =>
          /\ (req[t].pc = "queued") =>
                /\ UNCHANGED <<channelsFile, stateFiles, watches>>
                /\ IF DOMAIN channelsFile = {}
                   THEN /\ req'[t].pc = "done"
                        /\ ~req'[t].ok
                        /\ req'[t].stopped = <<>>
                   ELSE /\ req'[t].pc = "stop_loop"
                        /\ DOMAIN req'[t].channels = DOMAIN channelsFile
          /\ (req[t].pc = "stop_loop") =>
                /\ req'[t].pc \in {"stop_loop", "done"}
                /\ Len(req'[t].stopped) = Len(req[t].stopped) + 1
                /\ Range(req'[t].stopped) \cup DOMAIN req'[t].channels = DOMAIN channelsFile
                /\ Range(req'[t].stopped) \cap DOMAIN req'[t].channels = {}
                /\ watches' \subseteq watches
                /\ watches \ watches' \subseteq Range(req'[t].stopped) \ Range(req[t].stopped)
                /\ stateFiles' = stateFiles
                /\ IF req'[t].pc = "done"
                   THEN /\ req'[t].ok
                        /\ req'[t].status = 200
                        /\ channelsFile' = NoChannels
                        /\ Range(req'[t].stopped) = DOMAIN channelsFile
                   ELSE channelsFile' = channelsFile
      ]_vars

\* C15 witness: stop_watch has answered with both registered channels listed
\* and the registry empty, although the provider still holds a watch whose
\* stop call failed.
C15_Witness ==
    \E t \in Reqs :
       /\ req[t].kind = "stop_watch"
       /\ req[t].pc = "done"
       /\ req[t].ok
       /\ Range(req[t].stopped) = {1, 2}
       /\ channelsFile = NoChannels
       /\ watches # {}

\* The configuration lacks the callback address or the calendars.
Misconfigured == WEBHOOK_ADDRESS = None \/ CALENDAR_IDS = <<>>

\* C16: with the callback address or the calendars missing, init_watch answers
\* 400 from its first step and never goes further, and the service holds no
\* state file, no watch at the provider and no registry entry.
C16_ConfigError ==
    /\ [](Misconfigured =>
            /\ \A t \in Reqs :
                  (req[t].kind = "init_watch") =>
                     /\ req[t].pc \in {"queued", "done"}
                     /\ (req[t].pc = "done") =>
                           (req[t].status = 400 /\ ~req[t].ok /\ req[t].started = <<>>)
            /\ DOMAIN stateFiles = {}
            /\ watches = {}
            /\ channelsFile = NoChannels
            /\ uuids = 0)
    /\ [][\A t \in Reqs :
            (Misconfigured /\ req[t].kind = "init_watch" /\ req[t].pc = "queued"
               /\ req'[t] # req[t])
            => /\ req'[t].pc = "done"
               /\ req'[t].status = 400
               /\ UNCHANGED <<stateFiles, watches, channelsFile, uuids>>
         ]_vars

\* C16 witness: init_watch has answered 400 for a missing callback address.
C16_Witness ==
    \E t \in Reqs :
       /\ req[t].kind = "init_watch"
       /\ req[t].pc = "done"
       /\ req[t].status = 400
       /\ WEBHOOK_ADDRESS = None
       /\ CALENDAR_IDS # <<>>

\* C17: every incremental listing the push handler issues carries a cursor:
\* while the handler is in its incremental loop its syncToken is not None,
\* also when a bootstrap has just run in the same request.
C17_QueryHasCursor ==
    \A t \in Reqs : InRun(t) => req[t].state.syncToken # None

\* C18: a push whose channel id is not in the registry is answered 200 in one
\* step that lists nothing at the provider, reads and writes no state record,
\* emits and delivers nothing, and leaves the registry as it is.
C18_UnknownChannel ==
    [][\A t \in Reqs :
          (/\ req[t].kind = "calendar_push"
           /\ req[t].pc = "queued"
           /\ req'[t] # req[t]
           /\ req[t].channel_id \notin DOMAIN channelsFile)
          => /\ req'[t].pc = "done"
             /\ req'[t].status = 200
             /\ req'[t].npages = 0
             /\ req'[t].calendar_id = NoCal
             /\ req'[t].state = DefaultState
             /\ req'[t].saves = 0
             /\ ~req'[t].emitted
             /\ ~req'[t].posted
             /\ UNCHANGED <<stateFiles, channelsFile, watches, uuids>>
      ]_vars

\* C18 witness: a push for channel 1 has been answered; init_watch registered
\* the channel, stop_watch has removed it from the registry although its stop
\* failed at the provider, which still sends its pushes; the calendar's state
\* file is there, as the bootstrap left it.
C18_Witness ==
    \E t \in Reqs :
       /\ req[t].kind = "calendar_push"
       /\ req[t].pc = "done"
       /\ req[t].outcome = "unknown_channel"
       /\ req[t].status = 200
       /\ req[t].channel_id = 1
       /\ uuids >= 1
       /\ channelsFile = NoChannels
       /\ 1 \in watches
       /\ Persisted(CalA).syncToken # None

\* C19: when init_watch has answered, whether it went through every calendar
\* or failed on the way, every channel it registered at the provider in that
\* call is in the stored registry, under its calendar.
C19_RegistryComplete ==
    \A t \in Reqs :
       (req[t].kind = "init_watch" /\ req[t].pc = "done") =>
          \A k \in 1..Len(req[t].started) :
             LET c == req[t].started[k]
             IN (c \in watches) =>
                   /\ c \in DOMAIN channelsFile
                   /\ channelsFile[c] = req[t].channels[c]

\* C20: for a calendar whose stored state has a cursor, init_watch goes from
\* loading the state straight to the watch call, without a listing, and no
\* step of init_watch changes the stored cursor or items of such a calendar.
C20_BaselineKept ==
    [][\A t \in Reqs : (req[t].kind = "init_watch" /\ req'[t] # req[t]) =>
          \A k \in 1..Len(CALENDAR_IDS) :
             LET c == CALENDAR_IDS[k]
             IN (Persisted(c).syncToken # None) =>
                   /\ PersistedNext(c) = Persisted(c)
                   /\ (req[t].pc = "init_loop" /\ req[t].i = k) =>
                         /\ req'[t].pc = "watch"
                         /\ req'[t].npages = req[t].npages
                         /\ req'[t].state = Persisted(c)
      ]_vars

\* C20 witness: a repeated init_watch (a channel is registered already) has
\* loaded a state with a cursor and a tracked item and stands at the watch
\* call without having listed a page; the stored state is what it was.
C20_Witness ==
    \E t \in Reqs :
       /\ req[t].kind = "init_watch"
       /\ req[t].pc = "watch"
       /\ req[t].npages = 0
       /\ DOMAIN channelsFile # {}
       /\ req[t].state.syncToken # None
       /\ DOMAIN req[t].state.events # {}
       /\ Persisted(req[t].calendar_id) = req[t].state

=============================================================================
